---- MODULE Spec2Model ----
(***************************************************************************)
(* The native edge-detection bridge of OpenEdge                            *)
(* (app/src/main/cpp/edge_detection.cpp) as a state machine.               *)
(*                                                                         *)
(* The state is what survives a call: the caller's two Java arrays, the    *)
(* primitive-array views the JVM still counts as acquired, and a record of *)
(* the last call (its arguments, what the JVM answered, what it returned). *)
(* The native code has no static or global variable.                       *)
(*                                                                         *)
(* jint values are signed 32-bit: 0xFFFFFFFF is -1, 0xFF000000 is          *)
(* -16777216.  jbyte values are signed 8-bit.                              *)
(*                                                                         *)
(* The image-processing library is external.  Its calls are modelled by    *)
(* what they compute on the small frames of the model: the BT.601          *)
(* fixed-point NV21 conversion, the 5x5 Gaussian (sigma 1.5, weights to 8  *)
(* fractional bits, reflect-101 border), and a gradient detector with the  *)
(* two thresholds (Sobel 3x3, L1 magnitude, replicated border,             *)
(* non-maximum suppression along the dominant axis, one hop of             *)
(* hysteresis), whose result is 0 or 255 at every pixel.                   *)
(* The library's argument checks are those of OpenCV 4's cvtColor.         *)
(***************************************************************************)
EXTENDS Integers, Sequences, FiniteSets, TLC

VARIABLES
    libLoaded,   \* the native library and the image library it links are loaded
    initCalled,  \* initLibrary has been called
    initResult,  \* what the last initLibrary call returned
    width,       \* the caller's current frame geometry
    height,
    yuvArr,      \* the caller's frame array (jbyte values)
    outArr,      \* the caller's output array (jint values)
    outFresh,    \* outArr is newly allocated and has been handed to no call
    yuvHeld,     \* frame views acquired and not released
    outHeld,     \* output views acquired and not released
    last,        \* the last processFrame call on the current frame
    prev         \* the call before it on the same frame

vars == <<libLoaded, initCalled, initResult, width, height, yuvArr, outArr,
          outFresh, yuvHeld, outHeld, last, prev>>

(* ---- bounds of the model ---------------------------------------------- *)

\* frame widths are 0..MaxWidth, frame heights 0..MaxHeight
MaxWidth == 4

MaxHeight == 2

\* calls are made while fewer than MaxLeaks views of either array are outstanding
MaxLeaks == 2

(* ---- constants of the program ----------------------------------------- *)

\* 0xFFFFFFFF stored in a jint
WHITE == -1

\* 0xFF000000 stored in a jint
BLACK == -16777216

CannyLow == 50

CannyHigh == 150

\* the library calls of one processFrame, in order
NumSteps == 5

Steps == 1..NumSteps

Patterns == {"flat", "vstep"}

FaultKinds == {"cv", "other"}

NoFault == [kind |-> "none", step |-> 0]

Faults == {NoFault} \cup [kind : FaultKinds, step : Steps]

(* ---- arithmetic helpers ----------------------------------------------- *)

Max(a, b) == IF a > b THEN a ELSE b

Min(a, b) == IF a < b THEN a ELSE b

Abs(a) == IF a < 0 THEN -a ELSE a

\* cv::saturate_cast<uchar>
Saturate(v) == Max(0, Min(255, v))

\* a lazily defined sequence as a sequence value
MatData(f) == f \o <<>>

\* (unsigned char*)yuvBytes: a jbyte read as an unsigned byte
ToUChar(b) == IF b < 0 THEN b + 256 ELSE b

\* an unsigned byte stored into a jbyte
ToJByte(u) == IF u >= 128 THEN u - 256 ELSE u

\* four bytes in memory order read as one little-endian signed 32-bit int
ReadInt32(b0, b1, b2, b3) ==
    b0 + b1 * 256 + b2 * 65536 + (IF b3 >= 128 THEN b3 - 256 ELSE b3) * 16777216

(* ---- the caller's buffers --------------------------------------------- *)

\* rows of the Mat that wraps the frame
YuvRows(h) == h + h \div 2

\* frame lengths a caller may pass: the Mat's extent and the spec's w*h*3/2
FrameLens(w, h) == {w * YuvRows(h), (w * h * 3) \div 2}

\* output lengths a caller may pass: exactly w*h, or one spare element
OutLens(w, h) == {w * h, w * h + 1}

\* luma of a test frame at pixel k (row-major, from 0)
PatternLuma(pat, w, k) ==
    IF pat = "flat" THEN 128
    ELSE IF (k % w) < w \div 2 THEN 0 ELSE 255

\* an NV21 frame: the luma plane, then neutral chroma
Frame(pat, w, h, len) ==
    MatData([k \in 1..len |->
        IF k <= w * h THEN ToJByte(PatternLuma(pat, w, k - 1)) ELSE ToJByte(128)])

\* a newly allocated Java int array
NewIntArray(len) == MatData([k \in 1..len |-> 0])

(* ---- the library steps ------------------------------------------------ *)

\* byte of the frame Mat at offset k (from 0)
YuvByte(yuv, k) == ToUChar(yuv[k + 1])

\* cvtColor(yuvMat, bgrMat, COLOR_YUV2BGR_NV21): one pixel, as <<B, G, R>>
Nv21Pixel(yuv, w, h, r, c) ==
    LET y  == Max(0, YuvByte(yuv, r * w + c) - 16) * 1220542
        uv == w * h + (r \div 2) * w + (c - (c % 2))
        v  == YuvByte(yuv, uv) - 128
        u  == YuvByte(yuv, uv + 1) - 128
    IN  << Saturate((y + 524288 + 2116026 * u) \div 1048576),
           Saturate((y + 524288 - 852492 * v - 409993 * u) \div 1048576),
           Saturate((y + 524288 + 1673527 * v) \div 1048576) >>

\* cvtColor(bgrMat, grayMat, COLOR_BGR2GRAY): one pixel
GrayOf(bgr) == (bgr[1] * 1868 + bgr[2] * 9617 + bgr[3] * 4899 + 8192) \div 16384

\* the two colour conversions over the frame: the grayscale Mat, row-major
GrayMat(yuv, w, h) ==
    MatData([k \in 1..(w * h) |->
        GrayOf(Nv21Pixel(yuv, w, h, (k - 1) \div w, (k - 1) % w))])

\* cv::borderInterpolate(p, len, BORDER_REFLECT_101)
RECURSIVE Reflect101(_, _)
Reflect101(p, len) ==
    IF len = 1 THEN 0
    ELSE IF p < 0 THEN Reflect101(-p, len)
    ELSE IF p >= len THEN Reflect101(2 * len - 2 - p, len)
    ELSE p

\* the 5-tap Gaussian kernel for sigma 1.5, scaled by 256
GaussWeight(d) == IF d = 0 THEN 74 ELSE IF Abs(d) = 1 THEN 60 ELSE 31

\* GaussianBlur(grayMat, blurredMat, Size(5, 5), 1.5): the separable filter,
\* rows then columns in fixed point, rounded once at the end
GaussianBlur(gray, w, h) ==
    LET G(r, c) == gray[r * w + Reflect101(c, w) + 1]
        rowPass == MatData([k \in 1..(w * h) |->
            LET r == (k - 1) \div w
                c == (k - 1) % w
            IN  GaussWeight(-2) * G(r, c - 2) + GaussWeight(-1) * G(r, c - 1)
                + GaussWeight(0) * G(r, c)
                + GaussWeight(1) * G(r, c + 1) + GaussWeight(2) * G(r, c + 2)])
        R(r, c) == rowPass[Reflect101(r, h) * w + c + 1]
    IN  MatData([k \in 1..(w * h) |->
            LET r == (k - 1) \div w
                c == (k - 1) % w
            IN  (GaussWeight(-2) * R(r - 2, c) + GaussWeight(-1) * R(r - 1, c)
                 + GaussWeight(0) * R(r, c)
                 + GaussWeight(1) * R(r + 1, c) + GaussWeight(2) * R(r + 2, c)
                 + 32768) \div 65536])

\* pixel of a Mat with the border replicated
Replicated(m, w, h, r, c) ==
    m[Max(0, Min(h - 1, r)) * w + Max(0, Min(w - 1, c)) + 1]

\* the Sobel 3x3 gradient <<gx, gy>> at pixel k (from 1)
Gradient(m, w, h, k) ==
    LET r == (k - 1) \div w
        c == (k - 1) % w
        P(dr, dc) == Replicated(m, w, h, r + dr, c + dc)
    IN  << (P(-1, 1) - P(-1, -1)) + 2 * (P(0, 1) - P(0, -1)) + (P(1, 1) - P(1, -1)),
           (P(1, -1) - P(-1, -1)) + 2 * (P(1, 0) - P(-1, 0)) + (P(1, 1) - P(-1, 1)) >>

\* magnitude at row r, column c; 0 outside the image
MagAt(mag, w, h, r, c) ==
    IF r < 0 \/ r >= h \/ c < 0 \/ c >= w THEN 0 ELSE mag[r * w + c + 1]

\* pixels k2 that touch pixel k (8-neighbourhood)
Neighbours(w, h, k) ==
    {k2 \in 1..(w * h) :
        /\ k2 # k
        /\ Abs(((k2 - 1) \div w) - ((k - 1) \div w)) <= 1
        /\ Abs(((k2 - 1) % w) - ((k - 1) % w)) <= 1}

\* Canny(blurredMat, edgesMat, 50, 150): 255 on an edge, 0 elsewhere
Canny(blurred, w, h) ==
    LET grad == MatData([k \in 1..(w * h) |-> Gradient(blurred, w, h, k)])
        mag  == MatData([k \in 1..(w * h) |-> Abs(grad[k][1]) + Abs(grad[k][2])])
        \* a local maximum along the dominant axis of its gradient, above the low threshold
        kept == MatData([k \in 1..(w * h) |->
                    LET r  == (k - 1) \div w
                        c  == (k - 1) % w
                        dr == IF Abs(grad[k][1]) >= Abs(grad[k][2]) THEN 0 ELSE 1
                        dc == 1 - dr
                    IN  /\ mag[k] > CannyLow
                        /\ mag[k] > MagAt(mag, w, h, r - dr, c - dc)
                        /\ mag[k] >= MagAt(mag, w, h, r + dr, c + dc)])
        strong == MatData([k \in 1..(w * h) |-> kept[k] /\ mag[k] > CannyHigh])
    IN  MatData([k \in 1..(w * h) |->
            IF \/ strong[k]
               \/ kept[k] /\ \E k2 \in Neighbours(w, h, k) : strong[k2]
            THEN 255 ELSE 0])

\* cvtColor(edgesMat, rgbaMat, COLOR_GRAY2RGBA): bytes g, g, g, 255 per pixel;
\* (int*)rgbaMat.data reads each pixel as one int
Gray2RgbaInt(g) == ReadInt32(g, g, g, 255)

(* ---- the JNI array views --------------------------------------------- *)

\* ReleaseByteArrayElements(yuvData, yuvBytes, JNI_ABORT)
YuvReleaseMode == "JNI_ABORT"

\* ReleaseIntArrayElements(outputBuffer, outPixels, 0)
OutReleaseMode == "0"

\* The caller's array after Release<Type>ArrayElements(arr, view, mode): a view
\* that is a copy is copied back unless the mode is JNI_ABORT; a view that is the
\* array itself has already taken every write.
ReleaseArray(arr, view, mode, isCopy) ==
    IF isCopy THEN (IF mode = "JNI_ABORT" THEN arr ELSE view) ELSE view

(* ---- nativeProcessFrame ----------------------------------------------- *)

\* if (!yuvBytes || !outPixels)
InputError(yuvOk, outOk) == ~yuvOk \/ ~outOk

ReleasedOnInputError_never(obtained) == FALSE

\* if (yuvBytes) Release...; if (outPixels) Release...: on the input-error
\* path a view is released exactly when it was obtained
ReleasedOnInputError(obtained) == obtained

Nv21Rejects_sizeOnly(rows, cols) == cols % 2 # 0 \/ rows % 3 # 0

Nv21Rejects_evenRows(rows, cols) == rows = 0 \/ cols = 0 \/ cols % 2 # 0 \/ rows % 2 # 0

\* the argument checks of cvtColor(yuvMat, bgrMat, COLOR_YUV2BGR_NV21) on the
\* rows x cols frame Mat: not empty, an even width, rows a multiple of 3
Nv21Rejects(rows, cols) == rows = 0 \/ cols = 0 \/ cols % 2 # 0 \/ rows % 3 # 0

\* what library call `step` throws: "cv" (cv::Exception), "other", or "none"
StepThrows(step, w, h, fault) ==
    IF step = 1 /\ Nv21Rejects(YuvRows(h), w) THEN "cv"
    ELSE IF fault.step = step THEN fault.kind
    ELSE "none"

\* the first library call that throws; 0 when none does
FirstThrow(w, h, fault) ==
    LET throwing == {s \in Steps : StepThrows(s, w, h, fault) # "none"}
    IN  IF throwing = {} THEN 0
        ELSE CHOOSE s \in throwing : \A t \in throwing : s <= t

CatchClause_noCatchAll(kind) == IF kind = "cv" THEN "cv::Exception" ELSE "uncaught"

\* catch (const cv::Exception& e) { return -1; } catch (...) { return -1; }
CatchClause(kind) == IF kind = "cv" THEN "cv::Exception" ELSE "..."

pixelCount_short(w, h) == w * h - 1

pixelCount_firstCall(w, h) == IF last.outcome = "none" THEN 0 ELSE w * h

\* int pixelCount = width * height;
pixelCount(w, h) == w * h

\* if (pixel > 0) outPixels[i] = 0xFFFFFFFF; else outPixels[i] = 0xFF000000;
Classify(pixel) == IF pixel > 0 THEN WHITE ELSE BLACK

\* One call: what it returns and what it leaves behind.  yuvOk / outOk: the JVM
\* handed out the view; isCopy: the views are copies; fault: the failure the
\* environment raises in a library call.
nativeProcessFrame(yuv, w, h, out, yuvOk, outOk, isCopy, fault) ==
    IF InputError(yuvOk, outOk) THEN
        [outcome |-> "returned", status |-> -1, steps |-> 0,
         edges |-> <<>>, written |-> {}, outAfter |-> out,
         yuvMode |-> IF ReleasedOnInputError(yuvOk) THEN "JNI_ABORT" ELSE "unreleased",
         outMode |-> IF ReleasedOnInputError(outOk) THEN "JNI_ABORT" ELSE "unreleased",
         leakedYuv |-> yuvOk /\ ~ReleasedOnInputError(yuvOk),
         leakedOut |-> outOk /\ ~ReleasedOnInputError(outOk)]
    ELSE LET t == FirstThrow(w, h, fault) IN
        IF t # 0 THEN
            \* the handlers return without releasing either view
            [outcome |-> IF CatchClause(StepThrows(t, w, h, fault)) = "uncaught"
                         THEN "threw" ELSE "returned",
             status |-> -1, steps |-> t - 1,
             edges |-> <<>>, written |-> {}, outAfter |-> out,
             yuvMode |-> "unreleased", outMode |-> "unreleased",
             leakedYuv |-> TRUE, leakedOut |-> TRUE]
        ELSE
            LET grayMat    == GrayMat(yuv, w, h)
                blurredMat == GaussianBlur(grayMat, w, h)
                edgesMat   == Canny(blurredMat, w, h)
                rgbaData   == MatData([k \in 1..(w * h) |-> Gray2RgbaInt(edgesMat[k])])
                n          == pixelCount(w, h)
                outPixels  == MatData([k \in 1..Len(out) |->
                                  IF k <= n THEN Classify(rgbaData[k]) ELSE out[k]])
            IN  [outcome |-> "returned", status |-> 0, steps |-> NumSteps,
                 edges |-> edgesMat, written |-> 1..n,
                 outAfter |-> ReleaseArray(out, outPixels, OutReleaseMode, isCopy),
                 yuvMode |-> YuvReleaseMode, outMode |-> OutReleaseMode,
                 leakedYuv |-> FALSE, leakedOut |-> FALSE]

nativeInit_false == FALSE

\* return JNI_TRUE;  (the try block only logs a compile-time string)
nativeInit == TRUE

(* ---- the managed side when the library did not load ------------------- *)

\* initLibrary without the library: false
InitLibraryUnlinkedResult == FALSE

\* processFrame without the library: the failure status
ProcessFrameUnlinkedStatus == -1

(* ---- the state machine ------------------------------------------------ *)

NoCall ==
    [outcome |-> "none", status |-> 0, steps |-> 0, edges |-> <<>>, written |-> {},
     outAfter |-> <<>>, yuvMode |-> "unreleased", outMode |-> "unreleased",
     leakedYuv |-> FALSE, leakedOut |-> FALSE,
     native |-> FALSE, yuvOk |-> TRUE, outOk |-> TRUE, fault |-> NoFault,
     fresh |-> FALSE, outBefore |-> <<>>, yuvBefore |-> <<>>, yuvAfter |-> <<>>]

\* the failure the environment raised, without the step
FaultKind(fault) == fault.kind

NoPrev ==
    [valid |-> FALSE, yuvOk |-> TRUE, outOk |-> TRUE, faultKind |-> "none",
     outcome |-> "none", status |-> 0, outAfter |-> <<>>]

\* the call that `last` records, as the call before the next one; kept when it
\* was given a new output array
AsPrev ==
    IF last.outcome = "none" \/ ~last.fresh THEN NoPrev
    ELSE [valid |-> TRUE, yuvOk |-> last.yuvOk, outOk |-> last.outOk,
          faultKind |-> FaultKind(last.fault), outcome |-> last.outcome,
          status |-> last.status, outAfter |-> last.outAfter]

Init ==
    /\ libLoaded \in BOOLEAN
    /\ initCalled = FALSE
    /\ initResult = FALSE
    /\ width = 0
    /\ height = 0
    /\ yuvArr = <<>>
    /\ outArr = <<>>
    /\ outFresh = TRUE
    /\ yuvHeld = 0
    /\ outHeld = 0
    /\ last = NoCall
    /\ prev = NoPrev

\* the capture pipeline, which starts after the application's startup probe,
\* takes a new camera frame and allocates the output for it
LoadFrame(pat, w, h, flen, olen) ==
    /\ initCalled
    /\ width' = w
    /\ height' = h
    /\ yuvArr' = Frame(pat, w, h, flen)
    /\ outArr' = NewIntArray(olen)
    /\ outFresh' = TRUE
    /\ last' = NoCall
    /\ prev' = NoPrev
    /\ UNCHANGED <<libLoaded, initCalled, initResult, yuvHeld, outHeld>>

\* the caller replaces the output array by a new one of the same length
FreshOutput ==
    /\ ~outFresh
    /\ outArr' = NewIntArray(Len(outArr))
    /\ outFresh' = TRUE
    /\ UNCHANGED <<libLoaded, initCalled, initResult, width, height, yuvArr,
                   yuvHeld, outHeld, last, prev>>

\* Java_com_openedge_processing_EdgeDetection_nativeProcessFrame
ProcessFrame(yuvOk, outOk, isCopy, fault) ==
    /\ libLoaded
    /\ yuvHeld < MaxLeaks
    /\ outHeld < MaxLeaks
    \* the environment raises a fault only in a library call that is reached
    /\ (InputError(yuvOk, outOk) \/ Nv21Rejects(YuvRows(height), width)) => fault = NoFault
    /\ LET r == nativeProcessFrame(yuvArr, width, height, outArr,
                                   yuvOk, outOk, isCopy, fault)
       IN  /\ last' = r @@ [native |-> TRUE, yuvOk |-> yuvOk, outOk |-> outOk,
                            fault |-> fault, fresh |-> outFresh,
                            outBefore |-> outArr, yuvBefore |-> yuvArr,
                            yuvAfter |-> yuvArr]
           /\ outArr' = r.outAfter
           /\ yuvHeld' = yuvHeld + (IF r.leakedYuv THEN 1 ELSE 0)
           /\ outHeld' = outHeld + (IF r.leakedOut THEN 1 ELSE 0)
    /\ prev' = AsPrev
    /\ outFresh' = FALSE
    /\ UNCHANGED <<libLoaded, initCalled, initResult, width, height, yuvArr>>

\* processFrame when the native library did not load: no native code runs
ProcessFrameUnlinked ==
    /\ ~libLoaded
    /\ last' = [NoCall EXCEPT !.outcome = "returned",
                              !.status = ProcessFrameUnlinkedStatus,
                              !.fresh = outFresh,
                              !.outBefore = outArr, !.outAfter = outArr,
                              !.yuvBefore = yuvArr, !.yuvAfter = yuvArr]
    /\ prev' = AsPrev
    /\ outFresh' = FALSE
    /\ UNCHANGED <<libLoaded, initCalled, initResult, width, height, yuvArr,
                   outArr, yuvHeld, outHeld>>

\* Java_com_openedge_processing_EdgeDetection_nativeInit
NativeInit ==
    /\ libLoaded
    /\ initCalled' = TRUE
    /\ initResult' = nativeInit
    /\ UNCHANGED <<libLoaded, width, height, yuvArr, outArr, outFresh,
                   yuvHeld, outHeld, last, prev>>

\* initLibrary when the native library did not load
InitLibraryUnlinked ==
    /\ ~libLoaded
    /\ initCalled' = TRUE
    /\ initResult' = InitLibraryUnlinkedResult
    /\ UNCHANGED <<libLoaded, width, height, yuvArr, outArr, outFresh,
                   yuvHeld, outHeld, last, prev>>

Next ==
    \/ \E pat \in Patterns, w \in 0..MaxWidth, h \in 0..MaxHeight :
         \E flen \in FrameLens(w, h), olen \in OutLens(w, h) :
            LoadFrame(pat, w, h, flen, olen)
    \/ FreshOutput
    \/ \E yuvOk \in BOOLEAN, outOk \in BOOLEAN, isCopy \in BOOLEAN, fault \in Faults :
         ProcessFrame(yuvOk, outOk, isCopy, fault)
    \/ ProcessFrameUnlinked
    \/ NativeInit
    \/ InitLibraryUnlinked

Spec == Init /\ [][Next]_vars

(* ---- the properties ---------------------------------------------------- *)

\* a processFrame call has been made on the current frame
Called == last.outcome # "none"

\* ... and it ran the native code
NativeCall == Called /\ last.native

Succeeded == NativeCall /\ last.outcome = "returned" /\ last.status = 0

PixelRange == 1..(width * height)

\* C1: after a successful call, output position i holds 0xFFFFFFFF exactly when
\* the detector's result at i is non-zero and 0xFF000000 exactly when it is
\* zero (a detector value of 255 is an edge).
C1_EdgeIffDetector ==
    Succeeded =>
        \A k \in PixelRange :
            /\ last.outAfter[k] = WHITE <=> last.edges[k] # 0
            /\ last.outAfter[k] = BLACK <=> last.edges[k] = 0

\* C2: after any sequence of calls no acquired view is left unreleased, and no
\* call returns with a view it acquired still held.
C2_ViewsReleased ==
    /\ yuvHeld = 0
    /\ outHeld = 0
    /\ Called => ~last.leakedYuv /\ ~last.leakedOut

\* C3: after a successful call every position 1..width*height of the output has
\* been written and holds 0xFFFFFFFF or 0xFF000000, and no position beyond
\* width*height has been written.
C3_OutputBinary ==
    Succeeded =>
        /\ last.written = PixelRange
        /\ Len(last.outAfter) = Len(last.outBefore)
        /\ \A k \in PixelRange : last.outAfter[k] \in {WHITE, BLACK}
        /\ \A k \in 1..Len(last.outAfter) :
              k \notin PixelRange => last.outAfter[k] = last.outBefore[k]

\* a successful call on a non-empty frame whose output array has a spare element
C3_Witness ==
    /\ Succeeded
    /\ width * height > 0
    /\ Len(last.outAfter) > width * height

\* C4: every call returns, with status 0 or -1; a failure raised in a library
\* call, a library exception or any other, gives -1; 0 is returned only when all
\* five library calls and the output loop have completed.
C4_StatusCodes ==
    Called =>
        /\ last.outcome = "returned"
        /\ last.status \in {0, -1}
        /\ last.fault.kind # "none" => last.status = -1
        /\ last.status = 0 => last.steps = NumSteps /\ last.written = PixelRange

\* a call in which a library call raised something that is no library exception
C4_Witness ==
    /\ NativeCall
    /\ last.fault.kind = "other"
    /\ last.outcome = "returned"
    /\ last.status = -1

\* C5: when the frame view or the output view is not obtained, the call returns
\* -1 without running a library call, the view that was obtained is released
\* with JNI_ABORT, and the caller's output array is as it was.
C5_InputError ==
    (NativeCall /\ (~last.yuvOk \/ ~last.outOk)) =>
        /\ last.outcome = "returned"
        /\ last.status = -1
        /\ last.steps = 0
        /\ last.outAfter = last.outBefore
        /\ ~last.leakedYuv /\ ~last.leakedOut
        /\ last.yuvOk => last.yuvMode = "JNI_ABORT"
        /\ last.outOk => last.outMode = "JNI_ABORT"

\* a call that obtained the output view and not the frame view
C5_Witness ==
    /\ NativeCall
    /\ ~last.yuvOk
    /\ last.outOk
    /\ Len(last.outBefore) > 0

\* the call was given arrays of the lengths the specification names, obtained
\* both views and met no failure of the environment
WellFormedCall ==
    /\ NativeCall
    /\ width > 0
    /\ height > 0
    /\ Len(last.outBefore) = width * height
    /\ Len(last.yuvBefore) = (width * height * 3) \div 2
    /\ last.yuvOk
    /\ last.outOk
    /\ last.fault = NoFault

C7_ZeroDimension ==
    (NativeCall /\ (width = 0 \/ height = 0)) =>
        last.outcome = "returned" /\ last.status = -1

\* a call with width 0 and a positive height that obtained both views
C7_Witness ==
    /\ NativeCall
    /\ width = 0
    /\ height > 0
    /\ last.yuvOk
    /\ last.outOk

\* the last two calls were made on the same frame, each with a new output
\* array, and the environment answered both alike
SameCallTwice ==
    /\ Called
    /\ prev.valid
    /\ last.fresh
    /\ prev.yuvOk = last.yuvOk
    /\ prev.outOk = last.outOk
    /\ prev.faultKind = FaultKind(last.fault)

C9_FrameEffect ==
    NativeCall =>
        /\ last.yuvAfter = last.yuvBefore
        /\ last.yuvOk => last.yuvMode = "JNI_ABORT"
        /\ last.status # 0 => last.outAfter = last.outBefore

====
